---- MODULE Spec2Model ----
(***************************************************************************)
(* Wallet ledger and settlement protocol of the KOBPAY backend.            *)
(*                                                                         *)
(* The database is the shared state: the Wallet row (balanceKobo), the     *)
(* Transaction table and the WebhookEvent table.  Every HTTP request is a  *)
(* process whose steps are the awaits of its handler; what a handler does  *)
(* inside one prisma.$transaction is one atomic step.  Requests in flight  *)
(* are kept in a bag, so two requests with equal parameters at the same    *)
(* place are two copies of one record.                                     *)
(*                                                                         *)
(* Amounts are in units of 10000 kobo (NGN 100), the betting buffer.       *)
(*                                                                         *)
(* Spec is the ledger.  SpecTrade is the ExchangeTrade state machine of    *)
(* the exchange and admin routers, SpecWallet is getOrCreateWallet and     *)
(* SpecOtp the OTP rate limiter; each leaves the others' state alone.      *)
(* SpecForeign is the settlement handlers started with another user's row  *)
(* in the Transaction table, SpecVerify is requestOtp with verifyOtp, and  *)
(* SpecPin is POST /pin/change.                                            *)
(***************************************************************************)
EXTENDS Integers, Sequences, FiniteSets, Bags, TLC

\* ------------------------------------------------------------------ bounds
\* requests (settlements, webhook deliveries, refreshes) started in one run
MaxOps == 2
\* largest wallet balance at the start of a run
MaxBalance == 2

Users == {"u1"}
Refs == {"k1", "k2"}
\* a payload that carries no reference
NoRef == ""
Amounts == {1, 2}

\* bills.ts:1468  const bufferKobo = 100 * 100  (one unit of this model)
bufferKobo == 1

VARIABLES
    balance,         \* Wallet.balanceKobo per user
    txs,             \* Transaction table, a row's id is its index
    events,          \* WebhookEvent table, a row's id is its index
    ops,             \* bag of requests, in flight or done
    initialBalance,  \* history: the balance at the start
    credits,         \* history: sum of committed funding credits per user
    trades,          \* ExchangeTrade table, by trade id
    treqs,           \* bag of exchange requests, in flight or done
    wallets,         \* which users have a Wallet row, and its balanceKobo
    wcalls,          \* bag of getOrCreateWallet calls, in flight or done
    rateLimitStore,  \* otpService: rateLimitStore, by phone key
    otpStore,        \* otpService: otpStore, by phone key
    otpLog,          \* history: the OTP requests answered, with their time
    otpChecks,       \* history: the verifyOtp calls answered
    security,        \* the Security row of the user
    pinReqs,         \* bag of POST /pin/change requests, in flight or done
    now              \* Date.now(), in ticks

ledgerVars == <<balance, txs, events, ops, initialBalance, credits>>
tradeVars == <<trades, treqs>>
walletVars == <<wallets, wcalls>>
otpVars == <<rateLimitStore, otpStore, otpLog, otpChecks>>
pinVars == <<security, pinReqs>>

\* what the ledger handlers never touch
nonLedger == <<tradeVars, walletVars, otpVars, pinVars, now>>

vars == <<ledgerVars, tradeVars, walletVars, otpVars, pinVars, now>>

\* ------------------------------------------------------------ flow tables
ReserveFlows == {"airtime", "pay", "withdrawal", "giftcard"}
SettleFlows == ReserveFlows \cup {"betting"}
StatusHooks == {"vtu", "flw_transfer", "flw_bill"}
FundingHooks == {"flw_funding", "ps_funding"}
HookFlows == StatusHooks \cup FundingHooks

\* the provider column each handler writes and looks up
ProviderOf(flow) ==
    CASE flow \in {"airtime", "pay", "betting", "vtu", "refresh"} -> "vtuafrica"
      [] flow \in {"withdrawal", "flw_transfer", "flw_bill", "flw_funding",
                    "verify"} -> "flutterwave"
      [] flow = "giftcard" -> "reeplay"
      [] flow = "ps_funding" -> "paystack"

\* the category column each settlement handler writes
CategoryOf(flow) ==
    CASE flow = "airtime" -> "airtime"
      [] flow = "pay" -> "bills"
      [] flow = "withdrawal" -> "withdrawal"
      [] flow = "giftcard" -> "giftcard"
      [] flow = "betting" -> "betting"

AllCategories ==
    {"airtime", "bills", "withdrawal", "giftcard", "betting", "wallet_funding"}

\* the category filter of a handler's findFirst
LookupCategories(flow) ==
    CASE flow = "withdrawal" -> {"withdrawal"}
      [] flow = "flw_transfer" -> {"withdrawal"}
      [] flow = "vtu" -> {"bills"}
      [] OTHER -> AllCategories

\* what the provider call of a settlement can come back with
ProviderOutcomes(flow) ==
    CASE flow = "airtime" -> {"success", "failed", "throw"}
      [] flow = "pay" -> {"success", "pending", "failed", "throw"}
      [] flow = "withdrawal" -> {"success", "pending", "failed", "throw"}
      [] flow = "giftcard" -> {"success", "throw"}
      [] flow = "betting" -> {"success", "success_fee", "failed", "throw"}

\* ---------------------------------------------------------------- helpers
\* the sum of F over the rows of the Transaction table
SumRows(F(_)) ==
    LET S[i \in 0..Len(txs)] == IF i = 0 THEN 0 ELSE F(txs[i]) + S[i - 1]
    IN S[Len(txs)]

\* the WebhookEvent table without its unique index: no insert is refused
EventExistsOff(provider, reference) == FALSE

\* unique index WebhookEvent_provider_reference_key
EventExists(provider, reference) ==
    \E i \in DOMAIN events :
        events[i].provider = provider /\ events[i].reference = reference

\* the Transaction table without its unique index: no insert is refused
UniqueViolationOff(provider, ref) == FALSE

\* unique index Transaction_provider_providerRef_key
UniqueViolation(provider, ref) ==
    \E i \in DOMAIN txs : txs[i].provider = provider /\ txs[i].ref = ref

\* prisma.transaction.findFirst({where: {provider, providerRef, userId, category}})
\* the id of the matching row, 0 when there is none
FindTx(provider, ref, users, cats) ==
    LET hit == {i \in DOMAIN txs :
                   /\ txs[i].provider = provider
                   /\ txs[i].ref = ref
                   /\ txs[i].user \in users
                   /\ txs[i].category \in cats}
    IN IF hit = {} THEN 0 ELSE CHOOSE i \in hit : \A j \in hit : i <= j

NewRow(user, type, flowCategory, amount, provider, ref, status, debited) ==
    [user |-> user, type |-> type, category |-> flowCategory, amount |-> amount,
     provider |-> provider, ref |-> ref, status |-> status,
     fee |-> 0, total |-> amount,
     chargeError |-> "none",  \* metaJson.chargeError
     error |-> "none",        \* metaJson.error: the message of the caught error
     debited |-> debited,   \* history: amount taken from the wallet for this row
     refunds |-> 0,         \* history: compensating credits paid for this row
     writes |-> 0]          \* history: update statements committed on this row

NewOp(flow, user, ref, amt, st, pc) ==
    [flow |-> flow, user |-> user, ref |-> ref, amt |-> amt, pc |-> pc,
     st |-> st,            \* webhook: the status the payload carries
     sig |-> "none",       \* webhook: the signature the request carries
     out |-> "none",       \* the provider's answer
     seenStatus |-> "none",\* transaction.status as read by the handler
     txid |-> 0, evid |-> 0,
     calls |-> 0,          \* history: provider adapter invocations
     muts |-> 0,           \* history: ledger transactions this request committed
     existed |-> FALSE,    \* history: a row with this key existed at the start
     short |-> FALSE,      \* history: the amount exceeded the balance at the start
     mismatch |-> FALSE,   \* history: the amount was not the item's catalog price
     result |-> "none"]

\* the request has answered: its locals are dead
Done(op, result) ==
    [op EXCEPT !.pc = "done", !.result = result,
               !.seenStatus = "none", !.evid = 0]

Replace(op, new) == ops' = (ops (-) SetToBag({op})) (+) SetToBag({new})

InFlight == {op \in BagToSet(ops) : op.pc # "done"}

\* ------------------------------------------------------------------- Init
\* A run starts from an empty Transaction table, or from one in which an
\* earlier /pay or withdrawal request has left its row pending (the provider
\* answered "processing"): the wallet has been debited for it.
SeedFlows == {"none", "pay", "withdrawal"}
SeedRef == "k1"
SeedAmount == CHOOSE a \in Amounts : \A b \in Amounts : a <= b

\* ------------------------------------------------------------ settlements
Started(op) == ops' = ops (+) SetToBag({op})

\* a settlement request as it arrives, with what held at that moment
Arrived(flow, u, ref, amt, pc) ==
    [NewOp(flow, u, ref, amt, "none", pc)
        EXCEPT !.existed = UniqueViolation(ProviderOf(flow), ref),
               !.short = amt > balance[u]]

\* the funds check of a handler on the wallet row it has just read
\* (bills.ts:380, 1469; billers.ts:615; withdrawals:312; giftcards:67)
Affordable(flow, amt, seen) ==
    seen >= (IF flow = "betting" THEN amt + bufferKobo ELSE amt)

\* bills.ts /betting/purchase: a request arrives and verifyMerchantAccount is
\* called, before the wallet is looked at
VerifyMerchant ==
    \E u \in Users, ref \in Refs, amt \in Amounts, ok \in BOOLEAN :
        /\ BagCardinality(ops) < MaxOps
        /\ LET op == [Arrived("betting", u, ref, amt, "check") EXCEPT !.calls = 1]
           IN Started(IF ok THEN op ELSE Done(op, "BET_NOT_VERIFIED"))
        /\ UNCHANGED <<balance, txs, events, initialBalance, nonLedger, credits>>

\* no price: the request body carries no item amount
NoPrice == 0

\* /pay: the price the declared amount is held against is the amount of the
\* item object in the request body when it has one, else that of the catalog
\* entry (getBillItems) with the request's itemCode
ItemAmount(item, price) == IF item # NoPrice THEN item ELSE price

\* /pay: the declared amount must be the item amount, else AMOUNT_MISMATCH
AmountMatches(itemAmount, amt) == itemAmount = amt

\* a settlement request arrives (validation and PIN check passed).  /pay holds
\* the declared amount against the item amount first.  Then the wallet is read
\* (getOrCreateWallet / wallet.findUnique) and the funds check made on what
\* was read
FundsCheck ==
    \E flow \in ReserveFlows, u \in Users, ref \in Refs, amt \in Amounts,
       price \in Amounts, item \in Amounts \cup {NoPrice} :
        /\ BagCardinality(ops) < MaxOps
        /\ flow # "pay" => price = amt /\ item = NoPrice
        /\ LET op == [Arrived(flow, u, ref, amt, "find")
                         EXCEPT !.mismatch = amt # price]
           IN Started(IF flow = "pay" /\ ~AmountMatches(ItemAmount(item, price), amt)
                      THEN Done(op, "AMOUNT_MISMATCH")
                      ELSE IF Affordable(flow, amt, balance[u])
                      THEN op ELSE Done(op, "INSUFFICIENT_FUNDS"))
        /\ UNCHANGED <<balance, txs, events, initialBalance, nonLedger, credits>>

\* the same check in /betting/purchase, after the verify call
BetFundsCheck ==
    \E op \in InFlight :
        /\ op.flow = "betting" /\ op.pc = "check"
        /\ Replace(op, IF Affordable(op.flow, op.amt, balance[op.user])
                       THEN [op EXCEPT !.pc = "find"]
                       ELSE Done(op, "INSUFFICIENT_FUNDS"))
        /\ UNCHANGED <<balance, txs, events, initialBalance, nonLedger, credits>>

\* the idempotency lookup: an existing row of this user is returned as it is
FindExisting ==
    \E op \in InFlight :
        /\ op.pc = "find"
        /\ LET id == FindTx(ProviderOf(op.flow), op.ref, {op.user},
                            LookupCategories(op.flow))
           IN Replace(op, IF id # 0
                          THEN Done([op EXCEPT !.txid = id], "existing")
                          ELSE [op EXCEPT !.pc = "debit"])
        /\ UNCHANGED <<balance, txs, events, initialBalance, nonLedger, credits>>

\* prisma.$transaction: wallet decrement and insert of the pending row.  The
\* insert fails on the unique index and the whole transaction rolls back; no
\* handler catches that error.  Betting inserts the row and debits nothing.
ReserveAndDebit ==
    \E op \in InFlight :
        /\ op.pc = "debit"
        /\ IF UniqueViolation(ProviderOf(op.flow), op.ref)
           THEN /\ Replace(op, Done(op, "P2002"))
                /\ UNCHANGED <<balance, txs>>
           ELSE LET taken == IF op.flow = "betting" THEN 0 ELSE op.amt
                IN /\ balance' = [balance EXCEPT ![op.user] = @ - taken]
                   /\ txs' = Append(txs,
                          NewRow(op.user, "debit", CategoryOf(op.flow), op.amt,
                                 ProviderOf(op.flow), op.ref, "pending", taken))
                   /\ Replace(op, [op EXCEPT !.pc = "call", !.txid = Len(txs) + 1,
                                             !.muts = @ + 1])
        /\ UNCHANGED <<events, initialBalance, nonLedger, credits>>

\* the provider adapter answers, or raises (timeout, not JSON, HTTP error)
ProviderCall ==
    \E op \in {o \in InFlight : o.pc = "call"} :
        \E out \in ProviderOutcomes(op.flow) :
            /\ Replace(op, [op EXCEPT !.calls = @ + 1, !.out = out,
                                      !.pc = IF out = "throw" THEN "catch"
                                             ELSE "finalize"])
            /\ UNCHANGED <<balance, txs, events, initialBalance, nonLedger, credits>>

\* a compensating credit of amt to the owner of row id
Refund(id, amt) ==
    balance' = [balance EXCEPT ![txs[id].user] = @ + amt]

\* a status write that records failed whatever it is given
SetStatusOff(id, status, refunded) ==
    txs' = [txs EXCEPT ![id].status = "failed",
                       ![id].refunds = @ + (IF refunded THEN 1 ELSE 0),
                       ![id].writes = @ + 1]

SetStatus(id, status, refunded) ==
    txs' = [txs EXCEPT ![id].status = status,
                       ![id].refunds = @ + (IF refunded THEN 1 ELSE 0),
                       ![id].writes = @ + 1]

\* the outcome written after the provider answered.  airtime and pay write the
\* status and the refund of a failure in one prisma.$transaction; whatever the
\* row's status is by now, it is overwritten
Finalize ==
    \E op \in InFlight :
        /\ op.pc = "finalize" /\ op.flow \in {"airtime", "pay", "giftcard"}
        /\ SetStatus(op.txid, op.out, op.out = "failed")
        /\ IF op.out = "failed" THEN Refund(op.txid, op.amt)
                                ELSE UNCHANGED balance
        /\ Replace(op, Done([op EXCEPT !.muts = @ + 1],
                            IF op.flow = "airtime" /\ op.out = "failed"
                            THEN "PROVIDER_FAILED" ELSE op.out))
        /\ UNCHANGED <<events, initialBalance, nonLedger, credits>>

\* the withdrawal handler writes the status on its own (transaction.update) ...
WithdrawalStatus ==
    \E op \in InFlight :
        /\ op.pc = "finalize" /\ op.flow = "withdrawal"
        /\ SetStatus(op.txid, op.out, FALSE)
        /\ Replace(op, IF op.out = "failed"
                       THEN [op EXCEPT !.pc = "refund", !.muts = @ + 1]
                       ELSE Done([op EXCEPT !.muts = @ + 1], op.out))
        /\ UNCHANGED <<balance, events, initialBalance, nonLedger, credits>>

\* ... and the refund of a failed transfer in a second statement (wallet.update)
WithdrawalRefund ==
    \E op \in InFlight :
        /\ op.pc = "refund"
        /\ Refund(op.txid, op.amt)
        /\ txs' = [txs EXCEPT ![op.txid].refunds = @ + 1]
        /\ Replace(op, Done([op EXCEPT !.muts = @ + 1], op.out))
        /\ UNCHANGED <<events, initialBalance, nonLedger, credits>>

\* the catch block of a handler whose provider call raised.  /airtime/purchase
\* rethrows and touches nothing; /pay, withdrawals and giftcards refund and mark
\* the row failed in one prisma.$transaction, whatever its status is by now
CatchHandler ==
    \E op \in InFlight :
        /\ op.pc = "catch" /\ op.flow \in ReserveFlows
        /\ IF op.flow = "airtime"
           THEN /\ UNCHANGED <<balance, txs>>
                /\ Replace(op, Done(op, "PROVIDER_ERROR"))
           ELSE /\ Refund(op.txid, op.amt)
                /\ SetStatus(op.txid, "failed", TRUE)
                /\ Replace(op, Done([op EXCEPT !.muts = @ + 1], "PROVIDER_ERROR"))
        /\ UNCHANGED <<events, initialBalance, nonLedger, credits>>

\* ---------------------------------------------------------------- betting
\* a charge that is the requested amount whatever the provider reports
ChargedAmountOff(op) == op.amt

\* what the provider says it charged: the requested amount, or that plus a fee
ChargedAmount(op) == IF op.out = "success_fee" THEN op.amt + 1 ELSE op.amt

\* fundBetAccount answered not completed: the row is marked failed and an
\* AppError thrown into the handler's own catch block
BetFailed ==
    \E op \in InFlight :
        /\ op.pc = "finalize" /\ op.flow = "betting" /\ op.out = "failed"
        /\ SetStatus(op.txid, "failed", FALSE)
        /\ Replace(op, [op EXCEPT !.pc = "catch", !.muts = @ + 1])
        /\ UNCHANGED <<balance, events, initialBalance, nonLedger, credits>>

\* the charge transaction reads the wallet again (tx.wallet.findUnique).  If it
\* cannot cover the charge it updates the row to failed with chargeError
\* INSUFFICIENT_FUNDS_FOR_PROVIDER and throws AppError INSUFFICIENT_FUNDS out of
\* the callback: the transaction rolls back and that update with it
BetChargeRead ==
    \E op \in InFlight :
        /\ op.pc = "finalize" /\ op.flow = "betting" /\ op.out # "failed"
        /\ Replace(op, IF balance[op.user] < ChargedAmount(op)
                       THEN [op EXCEPT !.pc = "catch", !.out = "uncovered"]
                       ELSE [op EXCEPT !.pc = "charge"])
        /\ UNCHANGED <<balance, txs, events, initialBalance, nonLedger, credits>>

\* ... and then decrements it and marks the row success with the charged
\* amount.  The read takes no row lock, so another transaction's decrement can
\* commit between the read and this update (READ COMMITTED)
BetCharge ==
    \E op \in InFlight :
        /\ op.pc = "charge"
        /\ balance' = [balance EXCEPT ![op.user] = @ - ChargedAmount(op)]
        /\ txs' = [txs EXCEPT ![op.txid].status = "success",
                              ![op.txid].amount = ChargedAmount(op),
                              ![op.txid].fee =
                                  IF ChargedAmount(op) > op.amt
                                  THEN ChargedAmount(op) - op.amt ELSE 0,
                              ![op.txid].total = ChargedAmount(op),
                              ![op.txid].debited = @ + ChargedAmount(op),
                              ![op.txid].writes = @ + 1]
        /\ Replace(op, Done([op EXCEPT !.muts = @ + 1], "success"))
        /\ UNCHANGED <<events, initialBalance, nonLedger, credits>>

\* the message of the error the catch block of /betting/purchase has caught
BetErrorMessage(out) ==
    CASE out = "uncovered" ->
             "Insufficient wallet balance to cover provider charge"
      [] out = "failed" -> "Betting funding failed"
      [] OTHER -> "provider error"

\* the catch block of /betting/purchase marks the row failed, stores the
\* error's message and rethrows an AppError as it is
BetCatch ==
    \E op \in InFlight :
        /\ op.pc = "catch" /\ op.flow = "betting"
        /\ txs' = [txs EXCEPT ![op.txid].status = "failed",
                              ![op.txid].error = BetErrorMessage(op.out),
                              ![op.txid].writes = @ + 1]
        /\ Replace(op, Done([op EXCEPT !.muts = @ + 1],
                            IF op.out = "uncovered" THEN "INSUFFICIENT_FUNDS"
                            ELSE IF op.out = "failed" THEN "PROVIDER_FAILED"
                            ELSE "PROVIDER_ERROR"))
        /\ UNCHANGED <<balance, events, initialBalance, nonLedger, credits>>

\* --------------------------------------------------------------- webhooks
HookStatuses == {"success", "failed", "pending"}

\* the status words a funding webhook takes for a completed payment
\* (webhooks.ts:343 successStatuses; webhooks.ts:490 status !== "success")
SuccessWords(flow) ==
    IF flow = "ps_funding" THEN {"success"}
    ELSE {"successful", "success", "succeeded"}

\* the status a webhook payload can carry
PayloadStatuses(flow) ==
    IF flow \in StatusHooks THEN HookStatuses
    ELSE SuccessWords(flow) \cup {"failed"}

\* what a webhook request carries for a signature; every secret is configured
Signatures == {"valid", "invalid", "missing"}

\* the signature check at the head of a webhook handler.  Flutterwave and
\* Paystack reject what is not a valid signature; handleVtuWebhook compares the
\* payload's apikey only when the payload has one
SignatureAccepted(flow, sig) ==
    \/ sig = "valid"
    \/ flow = "vtu" /\ sig = "missing"

\* A webhook delivery arrives; with its signature accepted its WebhookEvent row
\* is inserted with status RECEIVED.  The insert fails on the unique index for
\* a (provider, reference) seen before: that delivery is answered 200 and
\* stops.  The model gives a payload one reference: the one the event is stored
\* under is the one the Transaction is looked up by.
InsertEvent ==
    \E flow \in HookFlows, ref \in Refs \cup {NoRef}, amt \in Amounts,
       sig \in Signatures :
      \E st \in PayloadStatuses(flow) :
        /\ BagCardinality(ops) < MaxOps
        /\ flow \in StatusHooks => amt = 1
        /\ ref = NoRef => flow = "vtu"
        /\ LET op == [NewOp(flow, "none", ref,
                            IF flow \in StatusHooks THEN 0 ELSE amt, st, "match")
                         EXCEPT !.sig = sig]
           IN IF ~SignatureAccepted(flow, sig)
              THEN /\ Started(Done(op, "WEBHOOK_INVALID"))
                   /\ UNCHANGED events
              ELSE IF ref = NoRef
              THEN /\ Started(Done(op, "unmatched"))
                   /\ UNCHANGED events
              ELSE IF EventExists(ProviderOf(flow), ref)
              THEN /\ Started(Done(op, "duplicate"))
                   /\ UNCHANGED events
              ELSE /\ events' = Append(events,
                          [provider |-> ProviderOf(flow), reference |-> ref,
                           status |-> "RECEIVED",
                           payload |-> st,      \* payloadJson
                           returned |-> FALSE,  \* history: the handler answered
                           muts |-> 0])         \* history: ledger transactions
                                                \* committed for this event
                   /\ Started([op EXCEPT !.evid = Len(events) + 1])
        /\ UNCHANGED <<balance, txs, initialBalance, nonLedger, credits>>

\* the event is given its status in a statement of its own and the handler
\* answers
MarkEvent(id, status) ==
    events' = [events EXCEPT ![id].status = status, ![id].returned = TRUE]

\* a ledger transaction that commits and leaves the event as it was
MarkAppliedOff(id, status) ==
    events' = [events EXCEPT ![id].muts = @ + 1, ![id].returned = TRUE]

\* tx.webhookEvent.update as the last statement of the prisma.$transaction
\* that changed the ledger; the handler answers
MarkApplied(id, status) ==
    events' = [events EXCEPT ![id].status = status, ![id].muts = @ + 1,
                             ![id].returned = TRUE]

\* the handler answers and leaves the event as it is
LeaveEvent(id) == events' = [events EXCEPT ![id].returned = TRUE]

\* handleVtuWebhook / handleFlutterwaveWebhook (singlebillpayment.status,
\* transfer.*): the Transaction is looked up by its reference, singlebillpayment
\* without a category; with none the event is marked UNMATCHED
MatchTx ==
    \E op \in InFlight :
        /\ op.pc = "match" /\ op.flow \in StatusHooks
        /\ LET id == FindTx(ProviderOf(op.flow), op.ref, Users,
                            LookupCategories(op.flow))
           IN IF id = 0
              THEN /\ MarkEvent(op.evid, "UNMATCHED")
                   /\ Replace(op, Done(op, "unmatched"))
              ELSE /\ UNCHANGED events
                   /\ Replace(op, [op EXCEPT !.pc = "apply", !.txid = id,
                                             !.seenStatus = txs[id].status])
        /\ UNCHANGED <<balance, txs, initialBalance, nonLedger, credits>>

\* whether a status webhook that reports failure credits the wallet: the VTU
\* and singlebillpayment.status handlers always do, the transfer handler unless
\* the row it read was failed
HookRefunds(flow, st, seen) ==
    st = "failed" /\ (flow \in {"vtu", "flw_bill"} \/ seen # "failed")

\* one prisma.$transaction: the row's status is overwritten with the reported
\* one, a failure is refunded, the event is marked FAILED or PROCESSED
ApplyStatus ==
    \E op \in InFlight :
        /\ op.pc = "apply"
        /\ LET refund == HookRefunds(op.flow, op.st, op.seenStatus)
           IN /\ SetStatus(op.txid, op.st, refund)
              /\ IF refund THEN Refund(op.txid, txs[op.txid].amount)
                           ELSE UNCHANGED balance
        /\ MarkApplied(op.evid, IF op.st = "failed" THEN "FAILED" ELSE "PROCESSED")
        /\ Replace(op, Done([op EXCEPT !.muts = @ + 1], "ok"))
        /\ UNCHANGED <<initialBalance, nonLedger, credits>>

\* handleFlutterwaveWebhook / handlePaystackWebhook: an event that is not a
\* successful charge
IgnoreEvent ==
    \E op \in InFlight :
        /\ op.pc = "match" /\ op.flow \in FundingHooks
        /\ op.st \notin SuccessWords(op.flow)
        /\ MarkEvent(op.evid, "IGNORED")
        /\ Replace(op, Done(op, "ignored"))
        /\ UNCHANGED <<balance, txs, initialBalance, nonLedger, credits>>

\* a successful charge whose payload names no user of the system
FundingUnmatched ==
    \E op \in InFlight :
        /\ op.pc = "match" /\ op.flow \in FundingHooks
        /\ op.st \in SuccessWords(op.flow)
        /\ MarkEvent(op.evid, "UNMATCHED")
        /\ Replace(op, Done(op, "unmatched"))
        /\ UNCHANGED <<balance, txs, initialBalance, nonLedger, credits>>

\* the status column of the credit row: Flutterwave's own word, "success" for
\* Paystack, "successful" for /fund/verify
CreditStatus(op) ==
    CASE op.flow = "flw_funding" -> op.st
      [] op.flow = "ps_funding" -> "success"
      [] op.flow = "verify" -> "successful"

\* a credit path that inserts the credit row and leaves the wallet as it was
CreditWalletOff(op, u) ==
    /\ UNCHANGED <<balance, credits>>
    /\ txs' = Append(txs, NewRow(u, "credit", "wallet_funding", op.amt,
                                 ProviderOf(op.flow), op.ref, CreditStatus(op), 0))

\* prisma.$transaction of the credit paths: wallet upsert with the increment
\* and insert of the credit row
CreditWallet(op, u) ==
    /\ balance' = [balance EXCEPT ![u] = @ + op.amt]
    /\ credits' = [credits EXCEPT ![u] = @ + op.amt]
    /\ txs' = Append(txs, NewRow(u, "credit", "wallet_funding", op.amt,
                                 ProviderOf(op.flow), op.ref, CreditStatus(op), 0))

\* what is left of the increment when the webhook's callback swallows the P2002
\* of the insert and returns: the failed statement has aborted the PostgreSQL
\* transaction, so the commit Prisma then issues rolls everything back
KeptAfterP2002Off(amt) == amt

KeptAfterP2002(amt) == 0

\* handleFlutterwaveWebhook (charge.completed), handlePaystackWebhook
\* (charge.success): one prisma.$transaction credits the wallet, inserts the
\* credit row and marks the event PROCESSED.  When the insert fails on the
\* unique index the callback returns and the event stays RECEIVED
FundingCredit ==
    \E op \in InFlight, u \in Users :
        /\ op.pc = "match" /\ op.flow \in FundingHooks
        /\ op.st \in SuccessWords(op.flow)
        /\ IF UniqueViolation(ProviderOf(op.flow), op.ref)
           THEN /\ balance' = [balance EXCEPT ![u] = @ + KeptAfterP2002(op.amt)]
                /\ credits' = [credits EXCEPT ![u] = @ + KeptAfterP2002(op.amt)]
                /\ UNCHANGED txs
                /\ LeaveEvent(op.evid)
                /\ Replace(op, Done([op EXCEPT !.user = u], "ok"))
           ELSE /\ CreditWallet(op, u)
                /\ MarkApplied(op.evid, "PROCESSED")
                /\ Replace(op, Done([op EXCEPT !.muts = @ + 1, !.user = u,
                                               !.txid = Len(txs) + 1], "ok"))
        /\ UNCHANGED <<initialBalance, nonLedger>>

\* ------------------------------------------------------------ /fund/verify
\* POST /wallet/fund/verify: the request arrives and verifyTransactionByReference
\* is called; a payment that is not successful yet is answered verified: false
VerifyPayment ==
    \E u \in Users, ref \in Refs, amt \in Amounts,
       out \in {"successful", "pending", "throw"} :
        /\ BagCardinality(ops) < MaxOps
        /\ LET op == [NewOp("verify", u, ref, amt, "none", "credit")
                         EXCEPT !.calls = 1, !.out = out]
           IN Started(CASE out = "successful" -> op
                        [] out = "pending" -> Done(op, "unverified")
                        [] out = "throw" -> Done(op, "PROVIDER_ERROR"))
        /\ UNCHANGED <<balance, txs, events, initialBalance, nonLedger, credits>>

\* ... and the credit in one prisma.$transaction; the P2002 of the insert
\* leaves the transaction and is answered alreadyCredited
VerifyCredit ==
    \E op \in InFlight :
        /\ op.pc = "credit" /\ op.flow = "verify"
        /\ IF UniqueViolation(ProviderOf(op.flow), op.ref)
           THEN /\ UNCHANGED <<balance, txs, credits>>
                /\ Replace(op, Done(op, "alreadyCredited"))
           ELSE /\ CreditWallet(op, op.user)
                /\ Replace(op, Done([op EXCEPT !.muts = @ + 1,
                                               !.txid = Len(txs) + 1], "verified"))
        /\ UNCHANGED <<events, initialBalance, nonLedger>>

\* ---------------------------------------------------------------- refresh
\* the rows POST /transactions/:id/refresh accepts
RefreshEligible(row) == row.provider = "vtuafrica" /\ row.category = "bills"

\* POST /transactions/:id/refresh: the caller's row is read; only a vtuafrica
\* bills row is eligible
RefreshRead ==
    \E id \in DOMAIN txs :
        /\ BagCardinality(ops) < MaxOps
        /\ LET op == [NewOp("refresh", txs[id].user, txs[id].ref, 0, "none", "query")
                         EXCEPT !.txid = id, !.seenStatus = txs[id].status]
           IN Started(IF ~RefreshEligible(txs[id])
                      THEN Done(op, "TX_REFRESH_INVALID") ELSE op)
        /\ UNCHANGED <<balance, txs, events, initialBalance, nonLedger, credits>>

\* the status refresh writes: the provider's, unless the row read was terminal
RefreshStatus(seen, reported) ==
    IF seen \in {"success", "failed"} THEN seen ELSE reported

\* getBillStatus answers, or raises
RefreshQuery ==
    \E op \in InFlight : \E out \in {"success", "failed", "pending", "throw"} :
        /\ op.pc = "query"
        /\ Replace(op, IF out = "throw"
                       THEN Done([op EXCEPT !.calls = @ + 1, !.out = out],
                                 "PROVIDER_ERROR")
                       ELSE [op EXCEPT !.calls = @ + 1, !.pc = "write",
                                       !.out = RefreshStatus(op.seenStatus, out)])
        /\ UNCHANGED <<balance, txs, events, initialBalance, nonLedger, credits>>

\* one prisma.$transaction: the status is written and a failure refunded unless
\* the row read at the start was already failed
RefreshWrite ==
    \E op \in InFlight :
        /\ op.pc = "write"
        /\ LET refund == op.out = "failed" /\ op.seenStatus # "failed"
           IN /\ SetStatus(op.txid, op.out, refund)
              /\ IF refund THEN Refund(op.txid, txs[op.txid].amount)
                           ELSE UNCHANGED balance
        /\ Replace(op, Done([op EXCEPT !.muts = @ + 1], op.out))
        /\ UNCHANGED <<events, initialBalance, nonLedger, credits>>

\* -------------------------------------------------------- exchange trades
\* exchange requests started in one run
MaxTradeReqs == 4
\* last tick of the clock
MaxClock == 2

TradeIds == {"t1"}

\* exchange.ts POST /trades: expiresAt = Date.now() + 24 * 60 * 60 * 1000,
\* one tick of this model
TradeTtl == 1

ongoingStatuses == {"PENDING_PAYMENT", "PAID_AWAITING_CONFIRMATION", "PAYMENT_RECEIVED"}

UserKinds == {"get", "ongoing", "cancel", "receipt", "paid"}
AdminKinds == {"payment-received", "complete"}

\* the x-admin-key header of a request to the admin router
AdminKeys == {"valid", "invalid", "none"}

\* an id no ExchangeTrade row has been created with
NoTrade ==
    [exists |-> FALSE, status |-> "none", expiresAt |-> 0, receipt |-> FALSE,
     ledger |-> "none",   \* status of the Transaction (kobpay, trade id), if any
     rows |-> 0,          \* Transaction rows created with that key
     by |-> "none"]       \* history: the credential of the last status writer

NewTreq(kind, t, key, pc) ==
    [kind |-> kind, id |-> t, key |-> key, pc |-> pc,
     result |-> "none",
     returned |-> "none",  \* the trade status in the response body
     late |-> FALSE]       \* history: the returned trade was overdue by then

TreqDone(r, result) == [r EXCEPT !.pc = "done", !.result = result]

\* the response carries serializeTrade(trade)
TreqReturns(r, tr) ==
    [r EXCEPT !.pc = "done", !.result = "ok", !.returned = tr.status,
              !.late = tr.expiresAt <= now]

TreqStarted(r) == treqs' = treqs (+) SetToBag({r})
TreqReplace(r, new) == treqs' = (treqs (-) SetToBag({r})) (+) SetToBag({new})

\* admin/exchangeTrades.ts ensureAdmin without the comparison
ensureAdminOff(key) == TRUE

\* admin/exchangeTrades.ts ensureAdmin: the header equals a configured key
ensureAdmin(key) == key = "valid"

\* the test of maybeExpireTrade, and of /cancel and /paid, on the row read
Overdue(tr) == tr.status = "PENDING_PAYMENT" /\ tr.expiresAt <= now

\* Date.now() advances
Tick ==
    /\ now < MaxClock
    /\ now' = now + 1
    /\ UNCHANGED <<ledgerVars, tradeVars, walletVars, otpVars, pinVars>>

\* POST /trades: prisma.exchangeTrade.create
TradeCreate ==
    \E t \in TradeIds :
        /\ trades[t].status = "none"
        /\ trades' = [trades EXCEPT ![t] =
               [NoTrade EXCEPT !.exists = TRUE, !.status = "PENDING_PAYMENT",
                               !.expiresAt = now + TradeTtl, !.by = "owner"]]
        /\ UNCHANGED <<treqs, ledgerVars, walletVars, otpVars, pinVars, now>>

\* what a user handler decides on the row its findFirst returned
UserDecision(kind, tr) ==
    CASE kind = "ongoing" /\ tr.status \notin ongoingStatuses -> "null"
      [] Overdue(tr) -> "expire"
      [] kind \in {"get", "ongoing"} -> "return"
      [] kind = "cancel" /\ tr.status # "PENDING_PAYMENT" -> "EXCHANGE_CANCEL_INVALID"
      [] kind = "cancel" /\ tr.receipt -> "EXCHANGE_CANCEL_INVALID"
      [] kind = "receipt" /\ tr.status # "PENDING_PAYMENT" -> "EXCHANGE_RECEIPT_INVALID"
      [] kind = "receipt" /\ tr.receipt -> "EXCHANGE_RECEIPT_EXISTS"
      [] kind = "paid" /\ tr.status # "PENDING_PAYMENT" -> "EXCHANGE_PAID_INVALID"
      [] kind = "paid" /\ ~tr.receipt -> "EXCHANGE_RECEIPT_REQUIRED"
      [] OTHER -> "write"

\* GET /trades/:id, GET /trades/ongoing, POST /trades/:id/cancel, /receipt,
\* /paid: the handler reads the row and tests it
UserRead ==
    \E kind \in UserKinds, t \in TradeIds :
        /\ BagCardinality(treqs) < MaxTradeReqs
        /\ LET tr == trades[t]
               r == NewTreq(kind, t, "owner", "read")
               d == UserDecision(kind, tr)
           IN TreqStarted(
                  IF ~tr.exists
                  THEN TreqDone(r, IF kind = "ongoing" THEN "null" ELSE "NOT_FOUND")
                  ELSE CASE d \in {"expire", "write"} -> [r EXCEPT !.pc = d]
                         [] d = "return" -> TreqReturns(r, tr)
                         [] OTHER -> TreqDone(r, d))
        /\ UNCHANGED <<trades, ledgerVars, walletVars, otpVars, pinVars, now>>

\* what the handler answers after it has marked the trade EXPIRED
AfterExpire(r, updated) ==
    CASE r.kind = "get" -> TreqReturns(r, updated)
      [] r.kind = "ongoing" -> TreqDone(r, "null")
      [] r.kind = "receipt" -> TreqDone(r, "EXCHANGE_RECEIPT_INVALID")
      [] OTHER -> TreqDone(r, "EXCHANGE_EXPIRED")

\* prisma.exchangeTrade.update({where: {id}, data: {status: "EXPIRED"}}) of
\* maybeExpireTrade, /cancel and /paid
TradeExpire ==
    \E r \in BagToSet(treqs) :
        /\ r.pc = "expire"
        /\ IF trades[r.id].exists
           THEN LET updated == [trades[r.id] EXCEPT !.status = "EXPIRED", !.by = r.key]
                IN /\ trades' = [trades EXCEPT ![r.id] = updated]
                   /\ TreqReplace(r, AfterExpire(r, updated))
           ELSE /\ TreqReplace(r, TreqDone(r, "P2025"))
                /\ UNCHANGED trades
        /\ UNCHANGED <<ledgerVars, walletVars, otpVars, pinVars, now>>

\* the row a handler's last statement leaves, whatever the row holds by then
Written(r, tr) ==
    CASE r.kind = "receipt" -> [tr EXCEPT !.receipt = TRUE]
      [] r.kind = "paid" ->
            [tr EXCEPT !.status = "PAID_AWAITING_CONFIRMATION", !.by = r.key]
      [] r.kind = "payment-received" ->
            [tr EXCEPT !.status = "PAYMENT_RECEIVED", !.by = r.key]
      [] r.kind = "complete" ->
            [tr EXCEPT !.status = "EXCHANGE_COMPLETED", !.by = r.key,
                       !.ledger = "successful", !.rows = @ + 1]
      [] r.kind = "cancel" ->
            [tr EXCEPT !.exists = FALSE, !.ledger = "cancelled", !.rows = @ + 1]

\* Transaction_provider_providerRef_key left out
TradeKeyTakenOff(tr) == FALSE

\* Transaction_provider_providerRef_key: a Transaction (kobpay, trade id)
\* exists, so tx.transaction.create fails and the transaction rolls back
TradeKeyTaken(tr) == tr.ledger # "none"

\* the update of /receipt, /paid and /payment-received, and the
\* prisma.$transaction of /cancel and /complete
TradeWrite ==
    \E r \in BagToSet(treqs) :
        /\ r.pc = "write"
        /\ LET tr == trades[r.id]
               P2002 == r.kind \in {"cancel", "complete"} /\ TradeKeyTaken(tr)
           IN CASE ~tr.exists ->
                       /\ TreqReplace(r, TreqDone(r, "P2025"))
                       /\ UNCHANGED trades
                [] tr.exists /\ P2002 ->
                       /\ TreqReplace(r, TreqDone(r, "P2002"))
                       /\ UNCHANGED trades
                [] OTHER ->
                       /\ trades' = [trades EXCEPT ![r.id] = Written(r, tr)]
                       /\ TreqReplace(r,
                              IF r.kind \in {"paid", "payment-received", "complete"}
                              THEN TreqReturns(r, Written(r, tr))
                              ELSE TreqDone(r, IF r.kind = "cancel"
                                               THEN "CANCELLED" ELSE "ok"))
        /\ UNCHANGED <<ledgerVars, walletVars, otpVars, pinVars, now>>

\* admin GET /: findMany and trades.map(serializeTrade)
AdminList ==
    \E key \in AdminKeys, t \in TradeIds :
        /\ BagCardinality(treqs) < MaxTradeReqs
        /\ LET r == NewTreq("list", t, key, "read")
           IN TreqStarted(
                  CASE ~ensureAdmin(key) -> TreqDone(r, "ADMIN_KEY_INVALID")
                    [] ensureAdmin(key) /\ ~trades[t].exists -> TreqDone(r, "ok")
                    [] OTHER -> TreqReturns(r, trades[t]))
        /\ UNCHANGED <<trades, ledgerVars, walletVars, otpVars, pinVars, now>>

\* the status an admin transition requires of the row it read
RequiredStatus(kind) ==
    IF kind = "payment-received" THEN "PAID_AWAITING_CONFIRMATION"
    ELSE "PAYMENT_RECEIVED"

\* admin POST /:id/payment-received and /:id/complete: ensureAdmin, the read
\* and the status test
AdminRead ==
    \E kind \in AdminKinds, key \in AdminKeys, t \in TradeIds :
        /\ BagCardinality(treqs) < MaxTradeReqs
        /\ LET r == NewTreq(kind, t, key, "read")
           IN TreqStarted(
                  CASE ~ensureAdmin(key) -> TreqDone(r, "ADMIN_KEY_INVALID")
                    [] ensureAdmin(key) /\ ~trades[t].exists -> TreqDone(r, "NOT_FOUND")
                    [] ensureAdmin(key) /\ trades[t].exists
                         /\ trades[t].status # RequiredStatus(kind) ->
                           TreqDone(r, "EXCHANGE_STATUS_INVALID")
                    [] OTHER -> [r EXCEPT !.pc = "write"])
        /\ UNCHANGED <<trades, ledgerVars, walletVars, otpVars, pinVars, now>>

\* ---------------------------------------------------------------- wallets
\* getOrCreateWallet calls started in one run
MaxWalletCalls == 3

WalletUsers == {"u1", "u2"}

\* a user no Wallet row has been created for
NoWallet ==
    [exists |-> FALSE, balanceKobo |-> 0,
     creates |-> 0]   \* history: the inserts committed for this user

NewCall(u, pc) ==
    [user |-> u, pc |-> pc, result |-> "none",
     late |-> wallets[u].exists,  \* history: the wallet existed at the call
     wrote |-> FALSE]             \* history: the call changed the table

CallReplace(c, new) == wcalls' = (wcalls (-) SetToBag({c})) (+) SetToBag({new})

\* getOrCreateWallet, createWalletIfMissing: prisma.wallet.findUnique
WalletFind ==
    \E u \in WalletUsers :
        /\ BagCardinality(wcalls) < MaxWalletCalls
        /\ LET c == NewCall(u, IF wallets[u].exists THEN "done" ELSE "create")
           IN wcalls' = wcalls (+) SetToBag({
                  IF wallets[u].exists THEN [c EXCEPT !.result = "existing"] ELSE c})
        /\ UNCHANGED <<wallets, ledgerVars, tradeVars, otpVars, pinVars, now>>

\* getOrCreateWallet, createWalletIfMissing: prisma.wallet.create with
\* balanceKobo 0; Wallet_pkey (userId) refuses a second row
WalletCreate ==
    \E c \in BagToSet(wcalls) :
        /\ c.pc = "create"
        /\ IF wallets[c.user].exists
           THEN /\ CallReplace(c, [c EXCEPT !.pc = "done", !.result = "P2002"])
                /\ UNCHANGED wallets
           ELSE /\ wallets' = [wallets EXCEPT ![c.user] =
                       [exists |-> TRUE, balanceKobo |-> 0, creates |-> @.creates + 1]]
                /\ CallReplace(c, [c EXCEPT !.pc = "done", !.result = "created",
                                            !.wrote = TRUE])
        /\ UNCHANGED <<ledgerVars, tradeVars, otpVars, pinVars, now>>

\* tx.wallet.upsert of a funding credit: the other writer of the table
WalletUpsert ==
    \E u \in WalletUsers, amt \in Amounts :
        /\ wallets[u].balanceKobo + amt <= MaxBalance
        /\ wallets' = [wallets EXCEPT ![u] =
               [exists |-> TRUE, balanceKobo |-> @.balanceKobo + amt,
                creates |-> IF @.exists THEN @.creates ELSE @.creates + 1]]
        /\ UNCHANGED <<wcalls, ledgerVars, tradeVars, otpVars, pinVars, now>>

\* -------------------------------------------------------------------- OTP
\* OTP requests answered in one run
MaxOtpRequests == 3

\* env.ts:26 OTP_RATE_LIMIT_MAX_REQUESTS (default 3)
OTP_RATE_LIMIT_MAX_REQUESTS == 2
\* env.ts:25 OTP_RATE_LIMIT_WINDOW_SECONDS (default 600), in ticks
OTP_RATE_LIMIT_WINDOW_SECONDS == 1

\* a phone number as the request body spells it, one character per element
Subscriber == <<"0", "8", "0", "3", "1", "2", "3", "4", "5", "6", "7">>
Spellings ==
    { Subscriber,
      <<" ">> \o Subscriber,
      SubSeq(Subscriber, 1, 4) \o <<" ">> \o SubSeq(Subscriber, 5, 11),
      <<"+", "2", "3", "4">> \o Tail(Subscriber) }

DigitChars == {"0", "1", "2", "3", "4", "5", "6", "7", "8", "9"}

RECURSIVE TrimStart(_)
TrimStart(s) == IF s # <<>> /\ Head(s) = " " THEN TrimStart(Tail(s)) ELSE s

RECURSIVE TrimEnd(_)
TrimEnd(s) ==
    IF s # <<>> /\ s[Len(s)] = " " THEN TrimEnd(SubSeq(s, 1, Len(s) - 1)) ELSE s

\* otpService normalizePhone: phone.trim()
normalizePhone(phone) == TrimEnd(TrimStart(phone))

\* otpService toBulkSmsNumber: the number the SMS goes to
toBulkSmsNumber(phone) ==
    LET digits == SelectSeq(phone, LAMBDA c : c \in DigitChars)
    IN IF Len(digits) = 11 /\ Head(digits) = "0"
       THEN <<"2", "3", "4">> \o Tail(digits)
       ELSE digits

PhoneKeys == {normalizePhone(p) : p \in Spellings}

\* otpService OTP_TTL_SECONDS (300), in ticks
OTP_TTL_SECONDS == 1

\* codes generateRandomOtp returns
Codes == {"111111", "222222"}

\* env.ts:24 DEV_OTP_FIXED_CODE
DEV_OTP_FIXED_CODE == "123456"

\* otpStore.get(phone) === undefined
NoCode ==
    [code |-> "none", expiresAt |-> 0,
     by |-> 0]   \* history: the request, by its place in otpLog, that stored it

\* rateLimitStore.get(phone) === undefined
NoRecord == [count |-> 0, windowStart |-> -1]

\* otpService isRateLimited on the record of the key: a missing or lapsed
\* record is replaced by a fresh one
WindowLapsed(rec) ==
    rec = NoRecord \/ now - rec.windowStart > OTP_RATE_LIMIT_WINDOW_SECONDS

isRateLimited(rec) ==
    ~WindowLapsed(rec) /\ rec.count >= OTP_RATE_LIMIT_MAX_REQUESTS

\* requestOtp up to its await: isRateLimited, incrementRateLimit and
\* otpStore.set run without yielding (OTP_PROVIDER is BULKSMS)
requestOtp ==
    \E spelt \in Spellings, code \in Codes :
        /\ Len(otpLog) + Len(otpChecks) < MaxOtpRequests
        /\ LET phone == normalizePhone(spelt)
               rec == rateLimitStore[phone]
               fresh == IF WindowLapsed(rec)
                        THEN [count |-> 0, windowStart |-> now] ELSE rec
               entry == [phone |-> phone, to |-> toBulkSmsNumber(phone),
                         at |-> now, windowStart |-> fresh.windowStart,
                         answer |-> "none"]
           IN IF isRateLimited(rec)
              THEN /\ otpLog' = Append(otpLog, [entry EXCEPT !.answer = "OTP_RATE_LIMIT"])
                   /\ UNCHANGED <<rateLimitStore, otpStore>>
              ELSE /\ rateLimitStore' =
                          [rateLimitStore EXCEPT ![phone] =
                              [fresh EXCEPT !.count = @ + 1]]
                   /\ otpStore' = [otpStore EXCEPT ![phone] =
                          [code |-> code, expiresAt |-> now + OTP_TTL_SECONDS,
                           by |-> Len(otpLog) + 1]]
                   /\ otpLog' = Append(otpLog, [entry EXCEPT !.answer = "sending"])
        /\ UNCHANGED <<otpChecks, ledgerVars, tradeVars, walletVars, pinVars, now>>

\* what the await of sendBulkSms ends with: the SMS is accepted; the send
\* fails and the error is rethrown; the send fails and allowFallback holds
\* (BULKSMS_FALLBACK_TO_DEV outside production)
SendOutcomes == {"ok", "BULKSMS_SMS_ERROR", "fallback"}

\* requestOtp after sendBulkSms: a failed send deletes the code stored under
\* the key, or replaces it with DEV_OTP_FIXED_CODE under the expiry computed
\* before the send
sendBulkSms ==
    \E i \in DOMAIN otpLog, out \in SendOutcomes :
        /\ otpLog[i].answer = "sending"
        /\ otpLog' = [otpLog EXCEPT ![i].answer = out]
        /\ otpStore' =
              CASE out = "ok" -> otpStore
                [] out = "BULKSMS_SMS_ERROR" ->
                      [otpStore EXCEPT ![otpLog[i].phone] = NoCode]
                [] out = "fallback" ->
                      [otpStore EXCEPT ![otpLog[i].phone] =
                          [code |-> DEV_OTP_FIXED_CODE,
                           expiresAt |-> otpLog[i].at + OTP_TTL_SECONDS,
                           by |-> i]]
        /\ UNCHANGED <<rateLimitStore, otpChecks, ledgerVars, tradeVars,
                       walletVars, pinVars, now>>

\* verifyOtp calls answered in one run
MaxOtpChecks == 2

\* verifyOtp that deletes the record only when it has expired
ConsumedOff(record, code) == record # NoCode /\ now > record.expiresAt

\* verifyOtp deletes the record: it is past its expiresAt, or it holds the
\* code of the call
Consumed(record, code) ==
    record # NoCode /\ (now > record.expiresAt \/ record.code = code)

\* verifyOtp: synchronous, so one step.  No record: false.  A record past
\* its expiresAt is deleted: false.  Another code: false, the record stays.
\* The stored code: the record is deleted, true.
verifyOtp ==
    \E spelt \in Spellings, code \in Codes \cup {DEV_OTP_FIXED_CODE} :
        /\ Len(otpChecks) < MaxOtpChecks
        /\ Len(otpLog) + Len(otpChecks) < MaxOtpRequests
        /\ LET phone == normalizePhone(spelt)
               record == otpStore[phone]
               expired == now > record.expiresAt
               ok == record # NoCode /\ ~expired /\ record.code = code
           IN /\ otpStore' = IF Consumed(record, code)
                             THEN [otpStore EXCEPT ![phone] = NoCode]
                             ELSE otpStore
              /\ otpChecks' = Append(otpChecks,
                     [phone |-> phone, code |-> code, at |-> now, ok |-> ok,
                      stored |-> record.code,   \* the code stored at the call
                      expired |-> record # NoCode /\ expired,
                      by |-> record.by])
        /\ UNCHANGED <<rateLimitStore, otpLog, ledgerVars, tradeVars,
                       walletVars, pinVars, now>>

\* -------------------------------------------------------------------- PIN
\* POST /pin/change requests started in one run
MaxPinReqs == 3

PIN_MAX_ATTEMPTS == 5
\* PIN_LOCK_SECONDS (900), in ticks
PIN_LOCK_SECONDS == 1

Pins == {"1111", "2222"}

\* bcrypt.hash(pin, 10)
Hash(pin) == <<"$2b$10$", pin>>

\* bcrypt.compare(pin, hash)
Compare(pin, hash) == hash = Hash(pin)

\* lockedUntil: null
NoLock == -1

\* the Security row of a user who has set a PIN
NewSecurity(pin, failedAttempts) ==
    [pinHash |-> Hash(pin), failedAttempts |-> failedAttempts,
     lockedUntil |-> NoLock,
     wrongs |-> failedAttempts,  \* history: wrong attempts evaluated since the
                                 \* PIN was last changed
     locks |-> 0]                \* history: locks set since then

\* security.lockedUntil && security.lockedUntil.getTime() > Date.now()
Locked(sec) == sec.lockedUntil # NoLock /\ sec.lockedUntil > now

PinReplace(r, new) == pinReqs' = (pinReqs (-) SetToBag({r})) (+) SetToBag({new})

\* POST /pin/change: prisma.security.findUnique and the lock test on the
\* row read
PinRead ==
    \E currentPin \in Pins, newPin \in Pins :
        /\ BagCardinality(pinReqs) < MaxPinReqs
        /\ LET r == [currentPin |-> currentPin, newPin |-> newPin,
                     pc |-> "compare",
                     pinHash |-> security.pinHash,
                     failedAttempts |-> security.failedAttempts,
                     result |-> "none",
                     locked |-> FALSE]  \* history: the lock was in force when
                                        \* the request was answered
           IN pinReqs' = pinReqs (+) SetToBag({
                  IF Locked(security)
                  THEN [r EXCEPT !.pc = "done", !.result = "PIN_LOCKED",
                                 !.locked = TRUE]
                  ELSE r})
        /\ UNCHANGED <<security, ledgerVars, tradeVars, walletVars, otpVars, now>>

\* const nextAttempts = security.failedAttempts + 1, on the row read
NextAttempts(r) == r.failedAttempts + 1

\* bcrypt.compare on the hash read, then prisma.security.update: a wrong PIN
\* writes the attempts and the lock, the right one the new hash
PinWrite ==
    \E r \in BagToSet(pinReqs) :
        /\ r.pc = "compare"
        /\ LET answered == [r EXCEPT !.pc = "done", !.locked = Locked(security)]
               shouldLock == NextAttempts(r) >= PIN_MAX_ATTEMPTS
           IN IF Compare(r.currentPin, r.pinHash)
              THEN /\ security' = NewSecurity(r.newPin, 0)
                   /\ PinReplace(r, [answered EXCEPT !.result = "ok"])
              ELSE /\ security' =
                          [security EXCEPT
                              !.failedAttempts = NextAttempts(r),
                              !.lockedUntil = IF shouldLock
                                              THEN now + PIN_LOCK_SECONDS
                                              ELSE NoLock,
                              !.wrongs = @ + 1,
                              !.locks = @ + (IF shouldLock THEN 1 ELSE 0)]
                   /\ PinReplace(r, [answered EXCEPT !.result = "PIN_INVALID"])
        /\ UNCHANGED <<ledgerVars, tradeVars, walletVars, otpVars, now>>

\* --------------------------------------------------------- specifications
PinIdle ==
    /\ security = NewSecurity("1111", 0)
    /\ pinReqs = EmptyBag

\* the tables and stores outside the ledger, before any request
TradeIdle ==
    /\ trades = [t \in TradeIds |-> NoTrade]
    /\ treqs = EmptyBag

WalletIdle ==
    /\ wallets = [u \in WalletUsers |-> NoWallet]
    /\ wcalls = EmptyBag

OtpIdle ==
    /\ rateLimitStore = [k \in PhoneKeys |-> NoRecord]
    /\ otpStore = [k \in PhoneKeys |-> NoCode]
    /\ otpLog = <<>>
    /\ otpChecks = <<>>

Init ==
    /\ TradeIdle /\ WalletIdle /\ OtpIdle /\ PinIdle /\ now = 0
    /\ initialBalance \in [Users -> 0..MaxBalance]
    /\ events = <<>>
    /\ ops = EmptyBag
    /\ credits = [u \in Users |-> 0]
    /\ \E seed \in SeedFlows, u \in Users :
          IF seed = "none"
          THEN /\ txs = <<>>
               /\ balance = initialBalance
          ELSE /\ initialBalance[u] >= SeedAmount
               /\ txs = <<NewRow(u, "debit", CategoryOf(seed), SeedAmount,
                                 ProviderOf(seed), SeedRef, "pending", SeedAmount)>>
               /\ balance = [initialBalance EXCEPT ![u] = @ - SeedAmount]

Next ==
    \/ VerifyMerchant
    \/ FundsCheck
    \/ BetFundsCheck
    \/ FindExisting
    \/ ReserveAndDebit
    \/ ProviderCall
    \/ Finalize
    \/ WithdrawalStatus
    \/ WithdrawalRefund
    \/ CatchHandler
    \/ BetFailed
    \/ BetChargeRead
    \/ BetCharge
    \/ BetCatch
    \/ InsertEvent
    \/ MatchTx
    \/ ApplyStatus
    \/ IgnoreEvent
    \/ FundingUnmatched
    \/ FundingCredit
    \/ VerifyPayment
    \/ VerifyCredit
    \/ RefreshRead
    \/ RefreshQuery
    \/ RefreshWrite

Spec == Init /\ [][Next]_vars

LedgerIdle ==
    /\ initialBalance = [u \in Users |-> 0]
    /\ balance = initialBalance
    /\ credits = [u \in Users |-> 0]
    /\ txs = <<>>
    /\ events = <<>>
    /\ ops = EmptyBag

\* A run starts with no trade, or with the trade an earlier POST /trades and
\* POST /trades/:id/receipt have left: pending, its receipt uploaded.
TradeSeeds ==
    { NoTrade,
      [NoTrade EXCEPT !.exists = TRUE, !.status = "PENDING_PAYMENT",
                      !.expiresAt = TradeTtl, !.receipt = TRUE, !.by = "owner"] }

InitTrade ==
    /\ LedgerIdle /\ WalletIdle /\ OtpIdle /\ PinIdle /\ now = 0
    /\ trades \in [TradeIds -> TradeSeeds]
    /\ treqs = EmptyBag

NextTrade ==
    \/ Tick
    \/ TradeCreate
    \/ UserRead
    \/ TradeExpire
    \/ TradeWrite
    \/ AdminList
    \/ AdminRead

SpecTrade == InitTrade /\ [][NextTrade]_vars


InitWallet == LedgerIdle /\ TradeIdle /\ WalletIdle /\ OtpIdle /\ PinIdle /\ now = 0

NextWallet ==
    \/ WalletFind
    \/ WalletCreate
    \/ WalletUpsert

SpecWallet == InitWallet /\ [][NextWallet]_vars

InitOtp == LedgerIdle /\ TradeIdle /\ WalletIdle /\ OtpIdle /\ PinIdle /\ now = 0

NextOtp ==
    \/ Tick
    \/ requestOtp
    \/ sendBulkSms

SpecOtp == InitOtp /\ [][NextOtp]_vars

InitVerify == LedgerIdle /\ TradeIdle /\ WalletIdle /\ OtpIdle /\ PinIdle /\ now = 0

NextVerify ==
    \/ Tick
    \/ requestOtp
    \/ sendBulkSms
    \/ verifyOtp

SpecVerify == InitVerify /\ [][NextVerify]_vars

\* A run starts after the user has set a PIN and has made fewer than
\* PIN_MAX_ATTEMPTS wrong attempts, one after another, to change it.
InitPin ==
    /\ LedgerIdle /\ TradeIdle /\ WalletIdle /\ OtpIdle /\ now = 0
    /\ pinReqs = EmptyBag
    /\ \E pin \in Pins, failedAttempts \in 0..(PIN_MAX_ATTEMPTS - 1) :
           security = NewSecurity(pin, failedAttempts)

NextPin ==
    \/ Tick
    \/ PinRead
    \/ PinWrite

SpecPin == InitPin /\ [][NextPin]_vars

\* the owner of a Transaction who makes no request in the run
OtherUser == "u2"

\* status of the row the other user's earlier request has left
SeedStatuses == {"pending", "success"}

\* A run of settlement requests alone, started from a Transaction table in
\* which another user's settlement holds the key SeedRef for its provider.
InitForeign ==
    /\ TradeIdle /\ WalletIdle /\ OtpIdle /\ PinIdle /\ now = 0
    /\ initialBalance \in [Users -> 0..MaxBalance]
    /\ balance = initialBalance
    /\ events = <<>>
    /\ ops = EmptyBag
    /\ credits = [u \in Users |-> 0]
    /\ \E seed \in SettleFlows, status \in SeedStatuses :
          txs = <<NewRow(OtherUser, "debit", CategoryOf(seed), SeedAmount,
                         ProviderOf(seed), SeedRef, status, SeedAmount)>>

NextForeign ==
    \/ VerifyMerchant
    \/ FundsCheck
    \/ BetFundsCheck
    \/ FindExisting
    \/ ReserveAndDebit
    \/ ProviderCall
    \/ Finalize
    \/ WithdrawalStatus
    \/ WithdrawalRefund
    \/ CatchHandler
    \/ BetFailed
    \/ BetChargeRead
    \/ BetCharge
    \/ BetCatch

SpecForeign == InitForeign /\ [][NextForeign]_vars

\* ================================================================= claims
DoneOps == {op \in BagToSet(ops) : op.pc = "done"}
Settlements == {op \in BagToSet(ops) : op.flow \in SettleFlows}
Deliveries == {op \in BagToSet(ops) : op.flow \in HookFlows}
Quiescent == InFlight = {}

RowsOf(u) == {i \in DOMAIN txs : txs[i].user = u}
RowsWithKey(provider, ref) ==
    {i \in DOMAIN txs : txs[i].provider = provider /\ txs[i].ref = ref}
Providers == {"vtuafrica", "flutterwave", "reeplay", "paystack"}

\* copies of the requests in S, a set of records of the bag ops
Copies(S) ==
    LET f[T \in SUBSET S] ==
            IF T = {} THEN 0
            ELSE LET o == CHOOSE x \in T : TRUE
                 IN CopiesIn(o, ops) + f[T \ {o}]
    IN f[S]

SuccessDebits(u) ==
    LET F(row) == IF row.user = u /\ row.type = "debit" /\ row.status = "success"
                  THEN row.amount ELSE 0
    IN SumRows(F)
Debited(u) ==
    LET F(row) == IF row.user = u THEN row.debited ELSE 0 IN SumRows(F)
Refunded(u) ==
    LET F(row) == IF row.user = u THEN row.refunds * row.amount ELSE 0
    IN SumRows(F)

\* the wallet balance is the initial balance and every committed movement
Accounting ==
    \A u \in Users :
        balance[u] = initialBalance[u] + credits[u] - Debited(u) + Refunded(u)

\* C1: once every request has answered and no debit is left pending, the
\* balance is the initial balance plus the funding credits minus the amounts of
\* the debit Transactions whose status is success
C1_Conservation ==
    (Quiescent /\ \A i \in DOMAIN txs : txs[i].status # "pending")
        => \A u \in Users :
              balance[u] = initialBalance[u] + credits[u] - SuccessDebits(u)

\* the settlement requests that got past the reserve step under a key
Reservers(provider, ref) ==
    {op \in Settlements : /\ ProviderOf(op.flow) = provider /\ op.ref = ref
                          /\ op.txid # 0 /\ op.result # "existing"}

\* C2: however often and however interleaved a settlement is issued under one
\* idempotency key, there is at most one Transaction with that (provider,
\* providerRef), one request at most has reserved under it, the row carries one
\* decrement of its amount, and the balance shows exactly the recorded movements
C2_OneRowOneDebit ==
    /\ \A p \in Providers, r \in Refs :
          /\ Cardinality(RowsWithKey(p, r)) <= 1
          /\ Copies(Reservers(p, r)) <= 1
          /\ \A op \in Reservers(p, r) : RowsWithKey(p, r) = {op.txid}
    /\ \A i \in DOMAIN txs :
          txs[i].type = "debit" /\ txs[i].category # "betting"
              => txs[i].debited = txs[i].amount
    /\ Accounting

\* two requests under one key have answered: one had reserved, the other lost
\* the insert or was shown the row
C2_Witness ==
    \E o1 \in DoneOps, o2 \in DoneOps :
        /\ o1.flow \in ReserveFlows /\ o2.flow = o1.flow /\ o2.ref = o1.ref
        /\ o1 \in Reservers(ProviderOf(o1.flow), o1.ref)
        /\ o2.result \in {"P2002", "existing"}

\* C3: when every request has answered, every debit Transaction that is failed
\* has had exactly one compensating credit
C3_ExactlyOneRefund ==
    Quiescent =>
        \A i \in DOMAIN txs :
            (txs[i].type = "debit" /\ txs[i].debited > 0 /\ txs[i].status = "failed")
                => txs[i].refunds = 1

\* C4: two settlements under different keys, each for the whole balance, with
\* no credit and no refund in between: exactly one reserves and the other is
\* refused with INSUFFICIENT_FUNDS
C4_ExactlyOneWins ==
    \A o1 \in DoneOps, o2 \in DoneOps :
        (/\ o1.flow \in ReserveFlows /\ o2.flow \in ReserveFlows
         /\ o1.ref # o2.ref /\ o1.user = o2.user
         /\ o1.amt = initialBalance[o1.user] /\ o2.amt = o1.amt
         /\ credits[o1.user] = 0
         /\ \A i \in DOMAIN txs : txs[i].refunds = 0 /\ i \in {o1.txid, o2.txid})
            => \/ o1.txid # 0 /\ o2.result = "INSUFFICIENT_FUNDS"
               \/ o2.txid # 0 /\ o1.result = "INSUFFICIENT_FUNDS"

\* C5: no wallet balance is ever negative
C5_NonNegative == \A u \in Users : balance[u] >= 0

\* the requests that answer in this step
Answering(op) == op.pc = "done" /\ CopiesIn(op, ops') > CopiesIn(op, ops)

\* C6: a settlement whose provider call raised after the reserve answers with
\* its Transaction failed and its amount back in the wallet
C6_RaiseCompensates ==
    [][\A op \in BagToSet(ops') :
          (Answering(op) /\ op.flow \in ReserveFlows /\ op.out = "throw")
              => /\ txs'[op.txid].status = "failed"
                 /\ balance'[op.user] = balance[op.user] + op.amt]_vars

\* C7: a settlement for more than the balance is refused with
\* INSUFFICIENT_FUNDS, without a Transaction and without a provider call
C7_ShortNeverCalls ==
    \A op \in DoneOps :
        (op.flow \in SettleFlows /\ op.short /\ ~op.mismatch)
            => op.result = "INSUFFICIENT_FUNDS" /\ op.calls = 0 /\ op.muts = 0

\* C8: a settlement whose (provider, providerRef) had a Transaction when it
\* arrived is answered with that Transaction, without a debit or provider call
C8_ExistingReturned ==
    \A op \in DoneOps :
        (op.flow \in ReserveFlows /\ op.existed /\ ~op.mismatch)
            => op.result = "existing" /\ op.calls = 0 /\ op.muts = 0

\* C9: of two settlement requests that reserve under one key, the one that
\* loses the insert is not answered with the uniqueness error
C9_ConflictReturnsExisting ==
    \A op \in DoneOps :
        (/\ op.flow \in SettleFlows
         /\ \E i \in RowsWithKey(ProviderOf(op.flow), op.ref) :
                txs[i].type = "debit" /\ txs[i].user = op.user)
            => op.result # "P2002"

EventsWithKey(provider, reference) ==
    {i \in DOMAIN events :
        events[i].provider = provider /\ events[i].reference = reference}

\* the deliveries under one (provider, reference) that changed the ledger
Applied(provider, reference) ==
    {op \in Deliveries : /\ ProviderOf(op.flow) = provider /\ op.ref = reference
                         /\ op.muts > 0}

\* C10: of the deliveries of one (provider, reference) at most one changes the
\* ledger, and it does so once; there is one WebhookEvent for it; a delivery
\* that finds the event answers as a duplicate and its step changes no Wallet,
\* Transaction or WebhookEvent
C10_WebhookOnce ==
    /\ [](\A p \in Providers, r \in Refs :
             /\ Cardinality(EventsWithKey(p, r)) <= 1
             /\ Copies(Applied(p, r)) <= 1
             /\ \A op \in Applied(p, r) : op.muts = 1)
    /\ [](\A op \in Deliveries : op.result = "duplicate" => op.muts = 0)
    /\ [][\A op \in BagToSet(ops') :
             (Answering(op) /\ op.result = "duplicate")
                 => UNCHANGED <<balance, txs, events>>]_vars

\* one delivery has changed the ledger and a second one of the same
\* (provider, reference) has been answered as a duplicate
C10_Witness ==
    \E o1 \in DoneOps, o2 \in DoneOps :
        /\ o1.flow \in StatusHooks /\ o2.flow = o1.flow /\ o2.ref = o1.ref
        /\ o1.muts = 1 /\ o2.result = "duplicate"

\* ---------------------------------------------------------------- funding
CreditFlows == FundingHooks \cup {"verify"}

\* the credit requests of one payment that changed the ledger
Crediting(provider, ref) ==
    {op \in BagToSet(ops) : /\ op.flow \in CreditFlows
                            /\ ProviderOf(op.flow) = provider /\ op.ref = ref
                            /\ op.muts > 0}

CreditRows(provider, ref) ==
    {i \in RowsWithKey(provider, ref) : txs[i].type = "credit"}

CreditedByRows(u) ==
    LET F(row) == IF row.user = u /\ row.type = "credit" THEN row.amount ELSE 0
    IN SumRows(F)

\* C11: one payment (provider, providerRef) is credited at most once over the
\* funding webhooks and /fund/verify in every interleaving: one credit row at
\* most under the key, one crediting request at most, and the wallet has been
\* incremented by the amounts of the credit rows and by nothing else
C11_CreditedOnce ==
    /\ \A p \in Providers, r \in Refs :
          /\ Cardinality(CreditRows(p, r)) <= 1
          /\ Copies(Crediting(p, r)) <= 1
    /\ \A u \in Users : credits[u] = CreditedByRows(u)

\* /fund/verify has credited a payment and a webhook delivery of the same
\* payment, let through by the WebhookEvent guard, has met the credit row
C11_Witness ==
    \E o1 \in DoneOps, o2 \in DoneOps :
        /\ o1.flow = "verify" /\ o1.muts = 1
        /\ o2.flow = "flw_funding" /\ o2.ref = o1.ref
        /\ o2.result = "ok" /\ o2.muts = 0

\* C12: a debit Transaction that is pending has its amount taken from the
\* wallet, and nothing is taken from a wallet without a row that records it
C12_PendingIsDebited ==
    /\ \A i \in DOMAIN txs :
          (txs[i].type = "debit" /\ txs[i].status = "pending")
              => txs[i].debited - txs[i].refunds * txs[i].amount = txs[i].amount
    /\ Accounting

\* C13: a webhook request whose signature is invalid or missing is answered
\* WEBHOOK_INVALID: it inserts no WebhookEvent and commits no change of a
\* Transaction or Wallet
C13_BadSignatureRejected ==
    \A op \in Deliveries :
        op.sig \in {"invalid", "missing"}
            => op.result = "WEBHOOK_INVALID" /\ op.muts = 0 /\ op.evid = 0

\* C14: a status webhook that reports failure credits the wallet with the
\* matched Transaction's amount when that Transaction is pending as the webhook
\* is applied, and credits nothing when it is success or failed already
C14_RefundIffPending ==
    [][\A op \in BagToSet(ops') :
          (Answering(op) /\ op.flow \in StatusHooks /\ op.st = "failed"
           /\ op.muts = 1 /\ txs[op.txid].type = "debit")
              => LET row == txs[op.txid]
                 IN balance' = [balance EXCEPT ![row.user] =
                                   @ + (IF row.status = "pending"
                                        THEN row.amount ELSE 0)]]_vars

\* what a funding webhook that credits does in its step: the user's balance
\* goes up by the funded amount and one credit row of that amount and user, with
\* a status among words, is appended
FundingStep(op, words) ==
    /\ balance' = [balance EXCEPT ![op.user] = @ + op.amt]
    /\ Len(txs') = Len(txs) + 1
    /\ SubSeq(txs', 1, Len(txs)) = txs
    /\ LET row == txs'[Len(txs')]
       IN /\ row.type = "credit" /\ row.user = op.user /\ row.amount = op.amt
          /\ row.provider = ProviderOf(op.flow) /\ row.ref = op.ref
          /\ row.status \in words

\* the successful funding webhooks for a matched user that answer in this
\* step, for a payment that had no Transaction yet
FundingAnswers ==
    {op \in BagToSet(ops') :
        /\ Answering(op) /\ op.flow \in FundingHooks /\ op.result = "ok"
        /\ ~UniqueViolation(ProviderOf(op.flow), op.ref)}

Alone(op) == BagCardinality(ops) = 1 /\ Len(txs) = 1 /\ op.txid = 1

\* C16: a settlement of amount A whose provider call reports success answers
\* with its Transaction in status success and credits nothing in doing so; when
\* it ran on its own on a balance B >= A the balance ends at B - A and the
\* Transaction has had no compensating credit
C16_SuccessSettles ==
    /\ [](\A op \in DoneOps :
             (op.flow \in ReserveFlows /\ op.out = "success" /\ Alone(op))
                 => /\ txs[1].status = "success" /\ txs[1].refunds = 0
                    /\ initialBalance[op.user] >= op.amt
                    /\ balance[op.user] = initialBalance[op.user] - op.amt)
    /\ [][\A op \in BagToSet(ops') :
             (Answering(op) /\ op.flow \in ReserveFlows /\ op.out = "success")
                 => /\ txs'[op.txid].status = "success"
                    /\ txs'[op.txid].refunds = txs[op.txid].refunds
                    /\ balance' = balance]_vars

\* a /pay settlement of 1 on a balance of 2 has ended success with balance 1
C16_Witness ==
    \E op \in DoneOps :
        /\ op.flow = "pay" /\ op.out = "success" /\ Alone(op)
        /\ op.amt = 1 /\ initialBalance[op.user] = 2 /\ balance[op.user] = 1
        /\ txs[1].status = "success"

\* what the provider reported as charged to a betting request
Reported(op) == IF op.out = "success_fee" THEN op.amt + 1 ELSE op.amt

\* C17: a betting settlement that ends success has taken from the wallet what
\* the provider reported as charged, in the step that marks it success, and its
\* Transaction holds that charge as amount and total and the excess over the
\* request as fee
C17_ChargedActual ==
    /\ [](\A op \in DoneOps :
             (op.flow = "betting" /\ op.result = "success")
                 => /\ txs[op.txid].amount = Reported(op)
                    /\ txs[op.txid].total = Reported(op)
                    /\ txs[op.txid].fee = Reported(op) - op.amt
                    /\ txs[op.txid].debited = Reported(op)
                    /\ txs[op.txid].status = "success")
    /\ [][\A op \in BagToSet(ops') :
             (Answering(op) /\ op.flow = "betting" /\ op.result = "success")
                 => balance' = [balance EXCEPT ![op.user] = @ - Reported(op)]]_vars

\* a bet of 1 was charged 2 by the provider on a balance of 2
C17_Witness ==
    \E op \in DoneOps :
        /\ op.flow = "betting" /\ op.result = "success" /\ op.out = "success_fee"
        /\ op.amt = 1 /\ Alone(op) /\ initialBalance[op.user] = 2
        /\ balance[op.user] = 0 /\ txs[1].amount = 2 /\ txs[1].fee = 1

\* C18: a betting settlement whose charge the wallet cannot cover ends with its
\* Transaction failed, nothing taken from the wallet for it, and a reason that
\* tells it from an ordinary refusal: the chargeError on the Transaction or an
\* error code other than INSUFFICIENT_FUNDS
C18_DistinctReason ==
    \A op \in DoneOps :
        (op.flow = "betting" /\ op.out = "uncovered")
            => /\ txs[op.txid].status = "failed"
               /\ txs[op.txid].debited = 0
               /\ \/ txs[op.txid].chargeError = "INSUFFICIENT_FUNDS_FOR_PROVIDER"
                  \/ op.result # "INSUFFICIENT_FUNDS"

\* C19: a /pay request whose declared amount is not the catalog price of its
\* item is answered AMOUNT_MISMATCH, with no Transaction, no wallet change and
\* no purchase call
C19_MismatchRejected ==
    \A op \in Settlements :
        (op.flow = "pay" /\ op.mismatch)
            => /\ op.result = "AMOUNT_MISMATCH"
               /\ op.txid = 0 /\ op.calls = 0 /\ op.muts = 0

\* a status webhook handler whose Transaction lookup finds the row
HookReaches(row) ==
    \E flow \in StatusHooks :
        ProviderOf(flow) = row.provider /\ row.category \in LookupCategories(flow)

\* the request that inserted row i has answered
Orphan(i) == \A op \in InFlight : op.txid # i

\* C20: a pending debit Transaction whose own request has answered can still be
\* brought to a terminal status: the refresh accepts it or a status webhook
\* handler finds it by its reference
C20_PendingResolvable ==
    \A i \in DOMAIN txs :
        (txs[i].type = "debit" /\ txs[i].status = "pending" /\ Orphan(i))
            => RefreshEligible(txs[i]) \/ HookReaches(txs[i])

\* ---------------------------------------------------------------- trades
\* the status changes the ExchangeTrade state machine allows
TradePath ==
    { <<"none", "PENDING_PAYMENT">>,
      <<"PENDING_PAYMENT", "PAID_AWAITING_CONFIRMATION">>,
      <<"PAID_AWAITING_CONFIRMATION", "PAYMENT_RECEIVED">>,
      <<"PAYMENT_RECEIVED", "EXCHANGE_COMPLETED">>,
      <<"PENDING_PAYMENT", "EXPIRED">> }

\* C21: under every interleaving of user, admin and read requests a trade's
\* status changes only along PENDING_PAYMENT -> PAID_AWAITING_CONFIRMATION ->
\* PAYMENT_RECEIVED -> EXCHANGE_COMPLETED, and a trade becomes EXPIRED or is
\* cancelled (its row deleted) only from PENDING_PAYMENT.
C21_StatusPath ==
    [][\A t \in TradeIds :
          /\ trades[t].status # trades'[t].status
                => <<trades[t].status, trades'[t].status>> \in TradePath
          /\ trades[t].exists /\ ~trades'[t].exists
                => trades[t].status = "PENDING_PAYMENT"]_vars

AdminOnlyStatuses == {"PAYMENT_RECEIVED", "EXCHANGE_COMPLETED"}

\* C22: a trade is moved to PAYMENT_RECEIVED or EXCHANGE_COMPLETED only by a
\* request that carries the administrative credential; with no such request
\* among the requests made, no trade is beyond PAID_AWAITING_CONFIRMATION.
C22_AdminOnly ==
    \A t \in TradeIds :
        trades[t].status \in AdminOnlyStatuses
            => /\ trades[t].by = "valid"
               /\ \E r \in BagToSet(treqs) :
                      r.kind \in AdminKinds /\ r.key = "valid" /\ r.pc = "done"

\* a trade has been completed by an admin while requests without the
\* credential were refused on the admin routes
C22_Witness ==
    /\ \E t \in TradeIds : trades[t].status = "EXCHANGE_COMPLETED"
    /\ \E r \in BagToSet(treqs) :
           r.kind \in AdminKinds /\ r.key # "valid" /\ r.result = "ADMIN_KEY_INVALID"

\* C30: no response returns an overdue trade as PENDING_PAYMENT: a trade
\* returned as PENDING_PAYMENT had its expiresAt in the future at that time.
C30_NoOverduePending ==
    \A r \in BagToSet(treqs) :
        r.pc = "done" /\ r.returned = "PENDING_PAYMENT" => ~r.late

\* --------------------------------------------------------------- wallets
\* C23: every getOrCreateWallet call, sequential or concurrent, returns the
\* user's existing wallet or the one it created with balance zero; after it
\* the user has exactly one wallet; a call made once the wallet exists
\* changes nothing.
C23_GetOrCreate ==
    \A c \in BagToSet(wcalls) :
        c.pc = "done"
            => /\ c.result \in {"existing", "created"}
               /\ wallets[c.user].exists /\ wallets[c.user].creates = 1
               /\ c.late => c.result = "existing" /\ ~c.wrote

\* -------------------------------------------------------------------- OTP
\* the requests accepted for one destination number in one limiter window
AcceptedFor(to, windowStart) ==
    {i \in DOMAIN otpLog :
        /\ otpLog[i].answer # "OTP_RATE_LIMIT"
        /\ otpLog[i].to = to
        /\ otpLog[i].windowStart = windowStart}

\* C24: for each phone number at most OTP_RATE_LIMIT_MAX_REQUESTS OTP
\* requests are accepted within one rate-limit window; the others are
\* rejected with OTP_RATE_LIMIT.
C24_RateLimited ==
    \A i \in DOMAIN otpLog :
        Cardinality(AcceptedFor(otpLog[i].to, otpLog[i].windowStart))
            <= OTP_RATE_LIMIT_MAX_REQUESTS

\* ------------------------------------------------------- atomicity, events
\* the step commits an insert or an update of a Transaction row
WritesTransaction ==
    \/ Len(txs') > Len(txs)
    \/ \E i \in DOMAIN txs : txs'[i].writes > txs[i].writes

\* C25: every change of a wallet balance commits in the same atomic unit as
\* the insert or update of a Transaction row; no balance change commits on its
\* own.
C25_BalanceWithRow ==
    [][balance' # balance => WritesTransaction]_vars

\* C26: for a settlement whose provider answered failed, the Transaction is
\* failed if and only if its refund is applied, in every observable state (a
\* settlement that ran on its own from an empty Transaction table).
C26_FailedWithRefund ==
    \A op \in BagToSet(ops) :
        (op.flow \in ReserveFlows /\ op.out = "failed" /\ Alone(op))
            => (txs[1].status = "failed" <=> txs[1].refunds = 1)

SettledStatuses == {"PROCESSED", "FAILED"}

\* C27: in every observable state a WebhookEvent is PROCESSED or FAILED if and
\* only if the ledger transaction it caused is committed.
C27_MarkedWithMutation ==
    \A e \in DOMAIN events :
        events[e].status \in SettledStatuses <=> events[e].muts = 1

\* a failure webhook has been applied: its Transaction is failed and refunded
\* and its event is FAILED, while another event is still RECEIVED with nothing
\* committed for it
C27_Witness ==
    /\ \E e \in DOMAIN events, i \in DOMAIN txs :
           /\ events[e].status = "FAILED" /\ events[e].muts = 1
           /\ txs[i].ref = events[e].reference
           /\ txs[i].status = "failed" /\ txs[i].refunds = 1
    /\ \E e \in DOMAIN events :
           events[e].status = "RECEIVED" /\ events[e].muts = 0

FinalEventStatuses == {"PROCESSED", "IGNORED", "UNMATCHED", "FAILED"}

\* C28: a WebhookEvent is created RECEIVED in a step that touches no Wallet and
\* no Transaction; once the handler of its delivery has answered it is
\* PROCESSED, IGNORED, UNMATCHED or FAILED, and its status changes no more.
C28_EventSettled ==
    /\ [](\A e \in DOMAIN events :
             events[e].returned => events[e].status \in FinalEventStatuses)
    /\ [][/\ Len(events') > Len(events)
                => /\ events'[Len(events')].status = "RECEIVED"
                   /\ UNCHANGED <<balance, txs>>
          /\ \A e \in DOMAIN events :
                events[e].returned => events'[e].status = events[e].status]_vars

\* C29: an authenticated delivery acknowledged as ignored or unmatched has
\* changed no Wallet and no Transaction and has left a WebhookEvent with its
\* payload, in status IGNORED or UNMATCHED.
C29_AcknowledgedRecorded ==
    \A op \in Deliveries :
        (op.pc = "done" /\ op.sig = "valid" /\ op.result \in {"ignored", "unmatched"})
            => /\ op.muts = 0
               /\ \E e \in DOMAIN events :
                      /\ events[e].provider = ProviderOf(op.flow)
                      /\ events[e].reference = op.ref
                      /\ events[e].payload = op.st
                      /\ events[e].status = IF op.result = "ignored"
                                            THEN "IGNORED" ELSE "UNMATCHED"

\* ------------------------------------------------- exchange cancellation
\* C31: a cancel deletes the trade row and records one Transaction
\* (kobpay, trade id) with status cancelled, changes no wallet balance and
\* deletes no Transaction, and the trade it deletes is PENDING_PAYMENT, not
\* past its expiresAt and without a receipt.
C31_CancelFrame ==
    [][\A t \in TradeIds :
          trades[t].exists /\ ~trades'[t].exists
              => /\ trades[t].ledger = "none"
                 /\ trades'[t].ledger = "cancelled"
                 /\ trades'[t].rows = 1
                 /\ balance' = balance
                 /\ txs' = txs
                 /\ trades[t].status = "PENDING_PAYMENT"
                 /\ now < trades[t].expiresAt
                 /\ ~trades[t].receipt]_vars

\* C35: a trade that has a receipt stored or is PAID_AWAITING_CONFIRMATION is
\* not deleted, under every interleaving of cancel with receipt and paid.
C35_PaidNotDeleted ==
    [][\A t \in TradeIds :
          /\ trades[t].exists
          /\ trades[t].receipt \/ trades[t].status = "PAID_AWAITING_CONFIRMATION"
          => trades'[t].exists]_vars

\* --------------------------------------------------- exchange completion
\* C34: whatever the number and interleaving of complete requests, a trade
\* becomes EXCHANGE_COMPLETED in the step that creates the successful
\* Transaction (kobpay, trade id) and in no other, a trade that is
\* EXCHANGE_COMPLETED has that Transaction, and no more than one Transaction
\* is ever created with the key.
C34_CompletedOnce ==
    /\ [](\A t \in TradeIds :
            /\ trades[t].rows <= 1
            /\ trades[t].exists /\ trades[t].status = "EXCHANGE_COMPLETED"
                  => trades[t].ledger = "successful" /\ trades[t].rows = 1)
    /\ [][\A t \in TradeIds :
             (trades[t].status # "EXCHANGE_COMPLETED"
                 /\ trades'[t].status = "EXCHANGE_COMPLETED")
             <=> (trades[t].ledger # "successful"
                     /\ trades'[t].ledger = "successful")]_vars

\* two complete requests have read the trade as PAYMENT_RECEIVED: one has
\* completed it and the other has failed on the unique index
C34_Witness ==
    \E t \in TradeIds :
        /\ trades[t].status = "EXCHANGE_COMPLETED"
        /\ trades[t].rows = 1
        /\ \E r1, r2 \in BagToSet(treqs) :
               /\ r1.kind = "complete" /\ r1.result = "ok"
               /\ r2.kind = "complete" /\ r2.result = "P2002"

\* ------------------------------------------------------ terminal statuses
TerminalStatuses == {"success", "failed"}

\* C32: a Transaction in status success or failed keeps that status: no
\* webhook delivery, refresh or retried request moves it to another status.
C32_TerminalKept ==
    [][\A i \in DOMAIN txs :
          txs[i].status \in TerminalStatuses
              => txs'[i].status = txs[i].status]_vars

\* ------------------------------------------------- another user's key
\* the key of the request identifies a Transaction of another user
ForeignKey(op) ==
    \E i \in RowsWithKey(ProviderOf(op.flow), op.ref) : txs[i].user # op.user

\* C33: a settlement request whose idempotency key identifies a Transaction
\* of another user for the same provider is not answered with that
\* Transaction, stores no second Transaction under the key and commits no
\* change of the requester's balance: with only such requests made, the
\* balance is what it was and the table holds the other user's row alone.
C33_ForeignKey ==
    /\ \A op \in Settlements :
           ForeignKey(op)
               => /\ op.result # "existing"
                  /\ op.txid = 0
                  /\ op.muts = 0
                  /\ Cardinality(RowsWithKey(ProviderOf(op.flow), op.ref)) = 1
    /\ (\A op \in Settlements : ForeignKey(op))
           => balance = initialBalance /\ Len(txs) = 1

\* a request that could afford its amount has met the other user's key at
\* the insert and has failed there
C33_Witness ==
    \E op \in Settlements :
        /\ ForeignKey(op)
        /\ op.pc = "done" /\ op.result = "P2002"
        /\ balance[op.user] >= op.amt

\* ----------------------------------------------------- OTP verification
\* the verifyOtp calls that succeeded on a code stored by request i
Successes(i) ==
    {j \in DOMAIN otpChecks : otpChecks[j].ok /\ otpChecks[j].by = i}

\* C36 as stated: at most one verifyOtp call succeeds per requestOtp.
C36_OncePerRequest ==
    \A i \in DOMAIN otpLog : Cardinality(Successes(i)) <= 1

\* the codes request i has stored: the generated one, and the fixed one when
\* its send failed and fell back
StoredBy(i) == IF otpLog[i].answer = "fallback" THEN 2 ELSE 1

\* C36: at most one verifyOtp call succeeds per code stored, and a
\* requestOtp stores one code unless its send falls back; a successful
\* verification and a check after the expiry remove the stored code, a
\* verification without a stored code fails, and a verification with another
\* code fails and leaves the stored code in place.
C36_OncePerCode ==
    /\ [](\A i \in DOMAIN otpLog : Cardinality(Successes(i)) <= StoredBy(i))
    /\ [][Len(otpChecks') > Len(otpChecks)
            => LET c == otpChecks'[Len(otpChecks')]
               IN /\ c.ok => c.stored = c.code /\ ~c.expired
                  /\ c.ok \/ c.expired => otpStore'[c.phone] = NoCode
                  /\ c.stored = "none" => ~c.ok /\ otpStore' = otpStore
                  /\ c.stored # "none" /\ ~c.expired /\ c.stored # c.code
                        => ~c.ok /\ otpStore' = otpStore]_vars

\* a request's SMS was accepted, and of two later verifications with the
\* code it stored the first succeeded and the second found no code
C36_Witness ==
    \E i \in DOMAIN otpLog, j, k \in DOMAIN otpChecks :
        /\ otpLog[i].answer = "ok"
        /\ j < k
        /\ otpChecks[j].ok /\ otpChecks[j].by = i
        /\ otpChecks[k].phone = otpChecks[j].phone
        /\ otpChecks[k].code = otpChecks[j].code
        /\ ~otpChecks[k].ok /\ otpChecks[k].stored = "none"

\* -------------------------------------------------------------- PIN lock
\* C37: between two successful PIN changes no more than PIN_MAX_ATTEMPTS
\* wrong attempts are evaluated without a lock having been set, under any
\* interleaving, and a request answered while the lock is in force is
\* answered PIN_LOCKED, whatever PIN it carries.
C37_LockAfterMax ==
    /\ security.locks = 0 => security.wrongs <= PIN_MAX_ATTEMPTS
    /\ \A r \in BagToSet(pinReqs) :
           r.pc = "done" /\ r.locked => r.result = "PIN_LOCKED"
====
